---- MODULE Spec2Model ----
\* Verification model of cc-rl's classical tree-search inference:
\* BaseInferer (shared harness), EpsilonApproximationInferer (pruned DFS) and
\* ClassifierChain.predict (strategy dispatch).
\*
\* Numbers.  Probabilities are tenths (0..10 stands for 0.0..1.0); scores are
\* exact rationals [n, d] in lowest terms, so a product or a sum of
\* probabilities is represented exactly and two scores are equal iff their
\* records are equal.  Labels are BOOLEAN as in the numpy bool arrays; array
\* positions of the code are 0-based, sequences here are 1-based, so the
\* code's column i is position i + 1.
EXTENDS Integers, Sequences, FiniteSets, TLC

VARIABLES cc, test_x, inferer, ret, queries, order_, pred_, fixed_, env_

vars == <<cc, test_x, inferer, ret, queries, order_, pred_, fixed_, env_>>

-----------------------------------------------------------------------------
\* Bounds of the model

\* largest batch (rows of test_x, rows of a prediction matrix)
MaxRows == 2
\* most labels of a prediction matrix handed to the reorder step
MaxLabels == 3

\* numbers of labels of the chains drawn for the search (the scenario chain
\* has three)
SearchDepths == {1, 2}
\* feature vectors a row of x can be (d1 = 1 column)
Features == {0, 1}
\* what an estimator may return for P(label 1), in tenths
Probs == {1, 5, 6}
\* loss strings tried at construction ("log" is not a loss)
Losses == {"exact_match", "hamming", "log"}
\* epsilons tried at construction, in tenths (-1 and 6 are outside [0, 0.5])
Epsilons == {-1, 0, 3, 5, 6}

-----------------------------------------------------------------------------
\* Exact arithmetic standing for the code's floats

RECURSIVE Gcd(_, _)
Gcd(a, b) == IF b = 0 THEN a ELSE Gcd(b, a % b)

Abs(a) == IF a < 0 THEN -a ELSE a

Rat(n, d) ==
    LET g == Gcd(Abs(n), d) IN [n |-> n \div g, d |-> d \div g]

RatMul(a, b) == Rat(a.n * b.n, a.d * b.d)

RatAdd(a, b) ==
    LET l == (a.d * b.d) \div Gcd(a.d, b.d)
    IN  Rat(a.n * (l \div a.d) + b.n * (l \div b.d), l)

RatGt(a, b) == a.n * b.d > b.n * a.d

RatGeq(a, b) == a.n * b.d >= b.n * a.d

RECURSIVE RatSum(_)
RatSum(v) == IF v = <<>> THEN Rat(0, 1) ELSE RatAdd(v[1], RatSum(Tail(v)))

\* a probability or an epsilon given in tenths
Tenths(p) == Rat(p, 10)

\* numpy .mean() of a vector of scores
Mean(v) == RatMul(RatSum(v), Rat(1, Len(v)))

-----------------------------------------------------------------------------
\* numpy helpers

\* The one element of a singleton set.  { e(v) : v \in {x} } evaluates x once
\* and binds v to its value, so Only(...) of it is "let v = x in e(v)" with x
\* computed a single time, as an assignment in the code is.
Only(S) == CHOOSE v \in S : TRUE

\* k.astype(bool) and the bool -> number conversion np.hstack does
AsBool(k) == k = 1

AsInt(b) == IF b THEN 1 ELSE 0

\* np.count_nonzero(mask)
count_nonzero(mask) == Cardinality({r \in 1..Len(mask) : mask[r]})

\* position of row r among the rows a boolean mask selects (v[mask] keeps order)
Rank(mask, r) == Cardinality({q \in 1..r : mask[q]})

\* the row selected at position k of v[mask]
RowAt(mask, k) == CHOOSE r \in 1..Len(mask) : mask[r] /\ Rank(mask, r) = k

\* v[mask] for a boolean mask of Len(v)
Compress(v, mask) == [k \in 1..count_nonzero(mask) |-> v[RowAt(mask, k)]]

\* np.argmax / np.argmin over a row [P0, P1]: the first index on ties
\* (faulty variant: the higher branch taken with argmin's comparison)
argmax_as_argmin(p) == IF p[2] < p[1] THEN 1 ELSE 0

argmax(p) == IF p[2] > p[1] THEN 1 ELSE 0

argmin(p) == IF p[2] < p[1] THEN 1 ELSE 0

max(p) == IF p[2] > p[1] THEN p[2] ELSE p[1]

min(p) == IF p[2] < p[1] THEN p[2] ELSE p[1]

-----------------------------------------------------------------------------
\* The fitted chain (sklearn ClassifierChain after fit): order_ and
\* estimators_.  Estimator i answers predict_proba on the augmented row
\* x ++ labels of chain positions 0..i-1.

AugRows(i) == {<<f>> \o s : f \in Features, s \in [1..i -> {0, 1}]}

\* estimators_[i].predict_proba(x_aug) for one row: [P(label 0), P(label 1)]
predict_proba(est, xaug) == <<10 - est[xaug], est[xaug]>>

\* np.hstack((x, pred[:, :i])) for row r
x_aug(xs, pred, r, i) == <<xs[r]>> \o [j \in 1..i |-> AsInt(pred[r][j])]

Depth(chain) == Len(chain.estimators)

Perms(d) == {p \in [1..d -> 0..(d - 1)] : \A a, b \in 1..d : p[a] = p[b] => a = b}

\* the d fitted estimators: estimator i is any map from its augmented rows
RECURSIVE Estimators(_)
Estimators(d) ==
    IF d = 0 THEN {<<>>}
    ELSE {Append(s, e) : s \in Estimators(d - 1), e \in [AugRows(d - 1) -> Probs]}

Chains(d) == {[order |-> o, estimators |-> e] : o \in Perms(d), e \in Estimators(d)}

\* order_ plays no part in a search (only __fix_order reads it): the chains
\* searched keep the labels in place, the chains predicted with do not
Identity(d) == [j \in 1..d |-> j - 1]

SearchChains == {c \in UNION {Chains(d) : d \in SearchDepths} : c.order = Identity(Depth(c))}

\* The chain of the depth-3 scenario: P(label 1) per node, the same for
\* every feature vector.  node(0)=[0.7,0.3], node(1|0)=[0.6,0.4],
\* node(1|1)=[0.2,0.8], node(2|00)=[0.9,0.1], node(2|01)=[0.5,0.5],
\* node(2|10)=[0.4,0.6], node(2|11)=[0.3,0.7].
ScenarioP1(labels) ==
    CASE labels = <<>> -> 3
      [] labels = <<0>> -> 4
      [] labels = <<1>> -> 8
      [] labels = <<0, 0>> -> 1
      [] labels = <<0, 1>> -> 5
      [] labels = <<1, 0>> -> 6
      [] labels = <<1, 1>> -> 7

ScenarioChain ==
    [order |-> <<0, 1, 2>>,
     estimators |-> [i \in 1..3 |-> [a \in AugRows(i - 1) |-> ScenarioP1(Tail(a))]]]

\* the chains ClassifierChain.predict is run with: every one-label chain and
\* the scenario chain under every label order
PredictChains == Chains(1) \cup {[ScenarioChain EXCEPT !.order = o] : o \in Perms(3)}

\* The batches.  The feature vectors are only names and the chains drawn
\* are closed under renaming them, so the first row is taken to be 0.
Batches == {b \in UNION {[1..n -> Features] : n \in 1..MaxRows} : b[1] = 0}

-----------------------------------------------------------------------------
\* BaseInferer

ValidLoss(loss) == loss = "exact_match" \/ loss = "hamming"

\* BaseInferer.__init__(cc, loss)
BaseInferer_init(chain, loss) ==
    IF ~ValidLoss(loss)
    THEN [state |-> "raised", exc |-> "AssertionError"]
    ELSE [state |-> "ok", loss |-> loss]

\* BaseInferer._new_score
new_score(loss, past_score, new_proba) ==
    IF loss = "exact_match"
    THEN RatMul(past_score, new_proba)
    ELSE RatAdd(past_score, new_proba)

\* the start value of the replayed reward
reward_start(loss) == IF loss = "exact_match" THEN Rat(1, 1) ELSE Rat(0, 1)

\* BaseInferer.__calculate_reward: per-row replay of the path pred[r]
RECURSIVE replay(_, _, _, _, _, _, _)
replay(chain, loss, xs, pred, r, i, reward) ==
    IF i = Depth(chain) THEN reward
    ELSE LET proba == predict_proba(chain.estimators[i + 1], x_aug(xs, pred, r, i))
         IN  replay(chain, loss, xs, pred, r, i + 1,
                    new_score(loss, reward, Tenths(proba[AsInt(pred[r][i + 1]) + 1])))

calculate_reward(chain, loss, xs, pred) ==
    Mean([r \in 1..Len(xs) |-> replay(chain, loss, xs, pred, r, 0, reward_start(loss))])

\* BaseInferer.__fix_order
\* (faulty variant: order used without inverting it)
inv_order_not_inverted(order) == order

inv_order(order) ==
    [k \in 1..Len(order) |-> CHOOSE j \in 0..(Len(order) - 1) : order[j + 1] = k - 1]

fix_order(order, pred) ==
    [r \in 1..Len(pred) |-> [k \in 1..Len(order) |-> pred[r][inv_order(order)[k] + 1]]]

-----------------------------------------------------------------------------
\* Reference strategies

Paths(d) == [1..d -> BOOLEAN]

\* the score of one complete path for one row, from the loss's identity
path_score(chain, loss, x, path) ==
    replay(chain, loss, <<x>>, <<path>>, 1, 0, reward_start(loss))

\* the paths no other path of the full tree outscores
best_paths(chain, loss, x) ==
    {p \in Paths(Depth(chain)) :
        \A q \in Paths(Depth(chain)) :
            RatGeq(path_score(chain, loss, x, p), path_score(chain, loss, x, q))}

\* p comes no later than q when label 0 is tried before label 1 at every node
LexLeq(p, q) ==
    \/ p = q
    \/ \E j \in 1..Len(p) : /\ \A h \in 1..(j - 1) : p[h] = q[h]
                            /\ ~p[j] /\ q[j]

\* ExhaustiveSearchInferer._infer: all 2^depth leaves, label 0 before
\* label 1, the best replaced only by a strictly greater score; one
\* estimator query per branch
ExhaustiveSearchInferer_infer(self, chain, xs) ==
    Only({ [self |-> [self EXCEPT !.ran = TRUE],
            value |-> <<pred, Rat(2 ^ (Depth(chain) + 1) - 2, 1)>>,
            n_calls |-> 2 ^ (Depth(chain) + 1) - 2] :
           pred \in {[r \in 1..Len(xs) |->
                        CHOOSE p \in best_paths(chain, self.loss, xs[r]) :
                            \A q \in best_paths(chain, self.loss, xs[r]) : LexLeq(p, q)]} })

\* ExhaustiveSearchInferer.__init__(cc, loss)
ExhaustiveSearchInferer_init(args) ==
    IF Len(args) # 2
    THEN [state |-> "raised", exc |-> "TypeError"]
    ELSE LET base == BaseInferer_init(args[1], args[2])
         IN  IF base.state = "raised" THEN base
             ELSE [state |-> "ok", class |-> "ExhaustiveSearchInferer",
                   loss |-> base.loss, ran |-> FALSE]

\* the arg-max path of one row: the label of highest probability at every
\* node from the root (label 0 on a tie)
RECURSIVE greedy_path(_, _, _)
greedy_path(chain, x, prefix) ==
    IF Len(prefix) = Depth(chain) THEN prefix
    ELSE greedy_path(chain, x,
            Append(prefix,
                   AsBool(argmax(predict_proba(chain.estimators[Len(prefix) + 1],
                                               x_aug(<<x>>, <<prefix>>, 1, Len(prefix)))))))

\* self.cc.predict(ds.test_x): sklearn's greedy chain prediction, in label order
sk_predict(chain, xs) ==
    fix_order(chain.order, [r \in 1..Len(xs) |-> greedy_path(chain, xs[r], <<>>)])

-----------------------------------------------------------------------------
\* EpsilonApproximationInferer

\* "condition = proba_min >= self.epsilon" for one row (epsilon in tenths)
\* (faulty variant: the comparison turned round)
condition_reversed(proba_min, epsilon) == RatGeq(Tenths(epsilon), proba_min)

condition(proba_min, epsilon) == RatGeq(proba_min, Tenths(epsilon))

\* the leaf branch of __dfs: rows of the mask whose score beats their best.
\* st.leaves is a history of the leaves reached (not a field of the code):
\* what each leaf was called with and the best arrays before and after it.
\* (faulty variant: the new scores handed out from the front of cur_p,
\* "self.__best_p[change] = cur_p[:np.count_nonzero(change)]")
leaf_scores_from_front(st, cur_p, mask) ==
    LET change == [r \in 1..Len(mask) |->
                     mask[r] /\ RatGt(cur_p[Rank(mask, r)], st.best_p[r])]
        new_pred == [r \in 1..Len(mask) |->
                       IF change[r] THEN st.cur_pred[r] ELSE st.best_pred[r]]
        new_p == [r \in 1..Len(mask) |->
                    IF change[r] THEN cur_p[Rank(change, r)] ELSE st.best_p[r]]
    IN  [st EXCEPT
           !.best_pred = new_pred,
           !.best_p = new_p,
           !.leaves = Append(@, [mask |-> mask, cur_pred |-> st.cur_pred, cur_p |-> cur_p,
                                 best_pred |-> st.best_pred, best_p |-> st.best_p,
                                 new_pred |-> new_pred, new_p |-> new_p])]

\* (faulty variant: a leaf that replaces nothing, the comparison turned round)
leaf_keeps_lower(st, cur_p, mask) ==
    LET change == [r \in 1..Len(mask) |->
                     mask[r] /\ RatGt(st.best_p[r], cur_p[Rank(mask, r)])]
        picked == Compress(cur_p, Compress(change, mask))
        new_pred == [r \in 1..Len(mask) |->
                       IF change[r] THEN st.cur_pred[r] ELSE st.best_pred[r]]
        new_p == [r \in 1..Len(mask) |->
                    IF change[r] THEN picked[Rank(change, r)] ELSE st.best_p[r]]
    IN  [st EXCEPT
           !.best_pred = new_pred,
           !.best_p = new_p,
           !.leaves = Append(@, [mask |-> mask, cur_pred |-> st.cur_pred, cur_p |-> cur_p,
                                 best_pred |-> st.best_pred, best_p |-> st.best_p,
                                 new_pred |-> new_pred, new_p |-> new_p])]

\* (faulty variant: an equal score replaces the best too)
leaf_replaces_equal(st, cur_p, mask) ==
    LET change == [r \in 1..Len(mask) |->
                     mask[r] /\ RatGeq(cur_p[Rank(mask, r)], st.best_p[r])]
        picked == Compress(cur_p, Compress(change, mask))
        new_pred == [r \in 1..Len(mask) |->
                       IF change[r] THEN st.cur_pred[r] ELSE st.best_pred[r]]
        new_p == [r \in 1..Len(mask) |->
                    IF change[r] THEN picked[Rank(change, r)] ELSE st.best_p[r]]
    IN  [st EXCEPT
           !.best_pred = new_pred,
           !.best_p = new_p,
           !.leaves = Append(@, [mask |-> mask, cur_pred |-> st.cur_pred, cur_p |-> cur_p,
                                 best_pred |-> st.best_pred, best_p |-> st.best_p,
                                 new_pred |-> new_pred, new_p |-> new_p])]

leaf(st, cur_p, mask) ==
    LET change == [r \in 1..Len(mask) |->
                     mask[r] /\ RatGt(cur_p[Rank(mask, r)], st.best_p[r])]
        \* cur_p[change[mask]], assigned in row order to the rows of change
        picked == Compress(cur_p, Compress(change, mask))
        new_pred == [r \in 1..Len(mask) |->
                       IF change[r] THEN st.cur_pred[r] ELSE st.best_pred[r]]
        new_p == [r \in 1..Len(mask) |->
                    IF change[r] THEN picked[Rank(change, r)] ELSE st.best_p[r]]
    IN  [st EXCEPT
           !.best_pred = new_pred,
           !.best_p = new_p,
           !.leaves = Append(@, [mask |-> mask, cur_pred |-> st.cur_pred, cur_p |-> cur_p,
                                 best_pred |-> st.best_pred, best_p |-> st.best_p,
                                 new_pred |-> new_pred, new_p |-> new_p])]

\* cur_pred[mask, i] = k.astype(bool), k one entry per selected row
set_column(cur_pred, mask, i, k) ==
    [r \in 1..Len(mask) |->
        IF mask[r] THEN [cur_pred[r] EXCEPT ![i + 1] = AsBool(k[Rank(mask, r)])]
        ELSE cur_pred[r]]

\* proba = self.cc.estimators_[i].predict_proba(np.hstack((x[mask], cur_pred[mask, :i])))
query(chain, xs, cur_pred, i, mask) ==
    [k \in 1..count_nonzero(mask) |->
        predict_proba(chain.estimators[i + 1], x_aug(xs, cur_pred, RowAt(mask, k), i))]

\* proba_max = self._new_score(cur_p, np.max(proba, axis=1))
proba_max(loss, cur_p, proba) ==
    [k \in 1..Len(proba) |-> new_score(loss, cur_p[k], Tenths(max(proba[k])))]

\* proba_min = self._new_score(cur_p, np.min(proba, axis=1))
proba_min(loss, cur_p, proba) ==
    [k \in 1..Len(proba) |-> new_score(loss, cur_p[k], Tenths(min(proba[k])))]

\* self.__n_nodes += np.count_nonzero(mask); cur_pred[mask, i] = argmax
visit_max(st, mask, i, proba) ==
    [st EXCEPT !.n_nodes = @ + count_nonzero(mask), !.n_calls = @ + 1,
               !.cur_pred = set_column(@, mask, i, [k \in 1..Len(proba) |-> argmax(proba[k])])]

\* new_mask = np.copy(mask); new_mask[new_mask] = condition
new_mask(mask, cond) == [r \in 1..Len(mask) |-> mask[r] /\ cond[Rank(mask, r)]]

\* k = np.argmin(proba[condition], axis=1); cur_pred[new_mask, i] = k
visit_min(st, nmask, i, proba, cond) ==
    [st EXCEPT !.cur_pred =
        set_column(@, nmask, i,
                   [k \in 1..count_nonzero(cond) |-> argmin(Compress(proba, cond)[k])])]

\* EpsilonApproximationInferer.__dfs.  st holds what the recursion mutates
\* in place: the shared cur_pred array and the fields __best_pred, __best_p,
\* __n_nodes (n_calls counts the predict_proba calls).  dfs is the whole
\* call; expand is its else branch once proba is known, lower its second
\* half (the branch with lowest proba) after the first recursive call.
RECURSIVE dfs(_, _, _, _, _, _, _, _)

lower(chain, loss, epsilon, xs, st2, cur_p, i, mask, proba) ==
    Only({ Only({ IF count_nonzero(nmask) > 0
                  THEN Only({ dfs(chain, loss, epsilon, xs, st3, p, i + 1, nmask) :
                                st3 \in {visit_min(st2, nmask, i, proba, cond)},
                                p \in {Compress(pmin, cond)} })
                  ELSE st2 :
                  nmask \in {new_mask(mask, cond)} }) :
           <<pmin, cond>> \in
              { <<q, [k \in 1..Len(q) |-> condition(q[k], epsilon)]>> :
                   q \in {proba_min(loss, cur_p, proba)} } })

expand(chain, loss, epsilon, xs, st, cur_p, i, mask, proba) ==
    Only({ lower(chain, loss, epsilon, xs, st2, cur_p, i, mask, proba) :
           st2 \in { dfs(chain, loss, epsilon, xs, st1, p, i + 1, mask) :
                       st1 \in {visit_max(st, mask, i, proba)},
                       p \in {proba_max(loss, cur_p, proba)} } })

dfs(chain, loss, epsilon, xs, st, cur_p, i, mask) ==
    IF i = Depth(chain) THEN leaf(st, cur_p, mask)
    ELSE Only({ expand(chain, loss, epsilon, xs, st, cur_p, i, mask, proba) :
                proba \in {query(chain, xs, st.cur_pred, i, mask)} })

\* EpsilonApproximationInferer._infer: the fields after the search
\* (n_nodes is the total still to be divided by len(x))
search(chain, loss, epsilon, xs) ==
    Only({ dfs(chain, loss, epsilon, xs, st0, ones, 0, all) :
           st0 \in {[cur_pred |-> [r \in 1..Len(xs) |-> [j \in 1..Depth(chain) |-> FALSE]],
                     best_pred |-> [r \in 1..Len(xs) |-> [j \in 1..Depth(chain) |-> FALSE]],
                     best_p |-> [r \in 1..Len(xs) |-> Rat(0, 1)],
                     n_nodes |-> 0, n_calls |-> 0, leaves |-> <<>>]},
           ones \in {[r \in 1..Len(xs) |-> Rat(1, 1)]},
           all \in {[r \in 1..Len(xs) |-> TRUE]} })

-----------------------------------------------------------------------------
\* Objects and calls

NoInferer == [state |-> "none"]

NoCall == [op |-> "none"]

\* "assert 0 <= epsilon <= 0.5" (epsilon in tenths)
\* (faulty variant: the upper limit left out)
valid_epsilon_no_upper(epsilon) == 0 <= epsilon

valid_epsilon(epsilon) == 0 <= epsilon /\ epsilon <= 5

\* EpsilonApproximationInferer.__init__ called with the positional arguments
\* args after self: it takes exactly (classifier_chain, loss, epsilon)
EpsilonApproximationInferer_init(args) ==
    IF Len(args) # 3
    THEN [state |-> "raised", exc |-> "TypeError"]
    ELSE LET base == BaseInferer_init(args[1], args[2])
         IN  IF base.state = "raised" THEN base
             ELSE IF ~valid_epsilon(args[3])
                  THEN [state |-> "raised", exc |-> "AssertionError"]
                  ELSE [state |-> "ok", class |-> "EpsilonApproximationInferer",
                        loss |-> base.loss, epsilon |-> args[3], ran |-> FALSE]

\* EpsilonApproximationInferer._infer on a constructed inferer: the object
\* after the search (with the history of its leaves) and the pair it returns
EpsilonApproximationInferer_infer(self, chain, xs) ==
    Only({ [self |-> [self EXCEPT !.ran = TRUE] @@
                     [best_pred |-> st.best_pred, best_p |-> st.best_p,
                      n_nodes |-> Rat(st.n_nodes, Len(xs)), leaves |-> st.leaves],
            value |-> <<st.best_pred, Rat(st.n_nodes, Len(xs))>>,
            n_calls |-> st.n_calls] :
           st \in {search(chain, self.loss, self.epsilon, xs)} })

\* BaseInferer.infer: _infer, then the reward replay, then the reorder;
\* it returns the triple (pred, n_nodes, reward)
infer(self, chain, xs) ==
    Only({ [self |-> r.self,
            value |-> <<fix_order(chain.order, r.value[1]), r.value[2],
                        calculate_reward(chain, self.loss, xs, r.value[1])>>,
            n_calls |-> r.n_calls + Depth(chain)] :
           r \in {IF self.class = "EpsilonApproximationInferer"
                   THEN EpsilonApproximationInferer_infer(self, chain, xs)
                   ELSE ExhaustiveSearchInferer_infer(self, chain, xs)} })

-----------------------------------------------------------------------------
\* ClassifierChain.predict

\* the branch of predict's if / elif chain an inference_method name takes
\* ("raise" is the final else)
\* (faulty variant: an unknown name falls back to greedy)
strategy_default_greedy(inference_method) ==
    IF inference_method \in {"greedy", "exhaustive_search", "epsilon_approximation",
                             "beam_search", "monte_carlo", "efficient_monte_carlo"}
    THEN inference_method
    ELSE "greedy"

strategy(inference_method) ==
    IF inference_method \in {"greedy", "exhaustive_search", "epsilon_approximation",
                             "beam_search", "monte_carlo", "efficient_monte_carlo"}
    THEN inference_method
    ELSE "raise"

\* "pred, num_nodes = inferer.infer(ds.test_x)": unpacking into two names
unpack2(value) ==
    IF Len(value) = 2
    THEN [outcome |-> "returned", pred |-> value[1], num_nodes |-> value[2]]
    ELSE [outcome |-> "raised", exc |-> "ValueError"]

\* "if return_num_nodes: return pred, num_nodes else: return pred"
predict_return(pred, num_nodes, return_num_nodes) ==
    IF return_num_nodes THEN <<pred, num_nodes>> ELSE pred

\* the inferer predict constructs for a strategy, with the arguments the
\* code passes
predict_inferer(chain, branch, kwargs) ==
    IF branch = "exhaustive_search"
    THEN IF "loss" \notin DOMAIN kwargs
         THEN [state |-> "raised", exc |-> "KeyError"]
         ELSE ExhaustiveSearchInferer_init(<<chain, kwargs.loss>>)
    ELSE IF "epsilon" \notin DOMAIN kwargs
         THEN [state |-> "raised", exc |-> "KeyError"]
         ELSE EpsilonApproximationInferer_init(<<chain, kwargs.epsilon>>)

\* ClassifierChain.predict(ds, inference_method, return_num_nodes, **kwargs):
\* how the call ends, the inferer it built and the estimator queries it made
predict(chain, xs, inference_method, return_num_nodes, kwargs) ==
    LET branch == strategy(inference_method)
    IN  IF branch = "greedy"
        THEN [outcome |-> "returned",
              value |-> predict_return(sk_predict(chain, xs), Depth(chain), return_num_nodes),
              inferer |-> NoInferer, queries |-> Depth(chain)]
        ELSE IF branch = "raise"
        THEN [outcome |-> "raised", exc |-> "Exception",
              inferer |-> NoInferer, queries |-> 0]
        ELSE Only({
               IF inf.state # "ok"
               THEN [outcome |-> "raised", exc |-> inf.exc,
                     inferer |-> NoInferer, queries |-> 0]
               ELSE Only({
                      Only({ IF u.outcome = "raised"
                             THEN [outcome |-> "raised", exc |-> u.exc,
                                   inferer |-> r.self, queries |-> r.n_calls]
                             ELSE [outcome |-> "returned",
                                   value |-> predict_return(u.pred, u.num_nodes,
                                                            return_num_nodes),
                                   inferer |-> r.self, queries |-> r.n_calls] :
                             u \in {unpack2(r.value)} }) :
                      r \in {infer(inf, chain, xs)} }) :
               inf \in {predict_inferer(chain, branch, kwargs)} })

-----------------------------------------------------------------------------
\* gym_cc: Renderer and Env

\* how a call ends: the receiver as the call left it and what came back
Returned(self, value) == [self |-> self, outcome |-> "returned", value |-> value]

Raised(self, exc) == [self |-> self, outcome |-> "raised", exc |-> exc]

\* Python's None where a tuple or an array may stand instead (an optional
\* number v is <<v>>), where a string may, and where an Env may
None == <<>>

Some(v) == <<v>>

NoneStr == "None"

NoEnv == [state |-> "none"]

\* the methods class Renderer defines, with the number of arguments each
\* takes after self
RendererMethods == [render |-> 2, reset |-> 0, next_sample |-> 0]

\* Renderer.__init__(self, mode, n_labels) called with the positional
\* arguments args and the keyword arguments named kwnames
Renderer_init(args, kwnames) ==
    IF Len(args) # 2 \/ kwnames # {}
    THEN [state |-> "raised", exc |-> "TypeError"]
    ELSE IF args[1] \notin {"none", "draw", "print"}
    THEN [state |-> "raised", exc |-> "AssertionError"]
    ELSE [state |-> "ok", mode |-> args[1]]

\* self.renderer.<name>(nargs arguments): "ok" or the exception raised
Renderer_call(name, nargs) ==
    IF name \notin DOMAIN RendererMethods THEN "AttributeError"
    ELSE IF RendererMethods[name] # nargs THEN "TypeError"
    ELSE "ok"

\* The value c + ln(q) with c and q rational, q >= 0 (ln(0) is -inf, as
\* np.log(0) is): a sum of probabilities has q = 1, a sum of logs c = 0 and
\* q the product.  Two such values are equal iff their records are equal.
Num(c, q) == IF q.n = 0 THEN [c |-> Rat(0, 1), ln |-> q] ELSE [c |-> c, ln |-> q]

\* v + np.log(p) and v + p for a probability p
AddLog(v, p) == Num(v.c, RatMul(v.ln, p))

AddNum(v, p) == Num(RatAdd(v.c, p), v.ln)

\* a > b for two such values that share c or share q (-inf below all)
NumGt(a, b) ==
    IF a.ln.n = 0 THEN FALSE
    ELSE IF b.ln.n = 0 THEN TRUE
    ELSE IF a.c = b.c THEN RatGt(a.ln, b.ln)
    ELSE RatGt(a.c, b.c)

\* the fitted wrapper cc_rl ClassifierChain: its sklearn chain and n_labels
Wrapper(chain) == [cc |-> chain, n_labels |-> Depth(chain)]

Zeros(n) == [j \in 1..n |-> 0]

\* Env.__init__(classifier_chain, x, loss, display, random_seed)
Env_init(classifier_chain, x, loss, display) ==
    LET renderer == Renderer_init(<<display, classifier_chain.n_labels + 1>>, {"loss"})
    IN  IF renderer.state = "raised"
        THEN [state |-> "raised", exc |-> renderer.exc]
        ELSE [state |-> "ok",
              classifier_chain |-> classifier_chain,
              loss |-> loss,
              path |-> Zeros(classifier_chain.n_labels),
              probabilities |-> Zeros(classifier_chain.n_labels),
              obs |-> None,
              current_estimator |-> 0,
              current_probability |-> Num(Rat(1, 1), Rat(1, 1)),
              x |-> x,
              cur_sample |-> 0,
              cur_x |-> x[1],
              observation_dict |-> <<>>,
              renderer |-> renderer,
              n_predictions |-> 0]

\* (self.path[:n] + 1).astype(bool) appended to cur_x
env_xy(self, n) == <<self.cur_x>> \o [j \in 1..n |-> AsInt(self.path[j] + 1 # 0)]

\* Env._next_observation.  observation_dict is a function from path tuples;
\* n_predictions counts the predict_proba calls made (not a field of the code)
next_observation(self) ==
    LET s1 == [self EXCEPT !.current_estimator = @ + 1]
        i == s1.current_estimator
    IN  IF s1.path \in DOMAIN s1.observation_dict
        THEN Returned(s1, s1.observation_dict[s1.path])
        ELSE IF i >= Depth(s1.classifier_chain.cc)
        THEN Raised(s1, "IndexError")
        ELSE LET obs == predict_proba(s1.classifier_chain.cc.estimators[i + 1], env_xy(s1, i))
             IN  Returned([s1 EXCEPT !.observation_dict = @ @@ (s1.path :> obs),
                                     !.n_predictions = @ + 1],
                          obs)

\* Env.step(action): the tuple returned is
\* (observation, path, probabilities, reward, done)
Env_step(self, action) ==
    IF action # 1 /\ action # -1 THEN Raised(self, "RuntimeError")
    ELSE IF self.current_estimator + 1 \notin 1..Len(self.path)
    THEN Raised(self, "IndexError")
    ELSE LET s1 == [self EXCEPT !.path[self.current_estimator + 1] = action]
         IN  IF s1.obs = None THEN Raised(s1, "TypeError")
             ELSE LET prob == Tenths(s1.obs[((action + 1) \div 2) + 1])
                      s2 == [s1 EXCEPT
                               !.probabilities[s1.current_estimator + 1] = s1.obs[1],
                               !.current_probability =
                                   IF s1.loss = "exact_match" THEN AddLog(@, prob)
                                   ELSE AddNum(@, prob)]
                  IN  IF Renderer_call("step", 2) # "ok"
                      THEN Raised(s2, Renderer_call("step", 2))
                      ELSE IF s2.current_estimator = s2.classifier_chain.n_labels - 1
                      THEN Returned(s2, <<None, s2.path, s2.probabilities,
                                          s2.current_probability, TRUE>>)
                      ELSE LET o == next_observation(s2)
                           IN  IF o.outcome = "raised" THEN o
                               ELSE Returned([o.self EXCEPT !.obs = o.value],
                                             <<Some(o.value[1]), o.self.path,
                                               o.self.probabilities,
                                               Num(Rat(0, 1), Rat(1, 1)), FALSE>>)

\* np.abs((1 + self.path) // 2 - self.probabilities)[j], in tenths
chosen_prob(self, j) == Abs(10 * ((1 + self.path[j]) \div 2) - self.probabilities[j])

\* np.sum(np.log(probs)) and np.sum(probs) over probs[:label]
RECURSIVE sum_probs(_, _, _)
sum_probs(self, label, j) ==
    IF j > label \/ j > Len(self.path)
    THEN Num(Rat(0, 1), Rat(1, 1))
    ELSE IF self.loss = "exact_match"
    THEN AddLog(sum_probs(self, label, j + 1), Tenths(chosen_prob(self, j)))
    ELSE AddNum(sum_probs(self, label, j + 1), Tenths(chosen_prob(self, j)))

\* Env.reset(label): the tuple returned is (observation, path, probabilities)
Env_reset(self, label) ==
    LET s1 == [self EXCEPT
                 !.current_probability = sum_probs(self, label, 1),
                 !.path = [j \in 1..Len(@) |-> IF j > label THEN 0 ELSE @[j]],
                 !.probabilities = [j \in 1..Len(@) |-> IF j > label THEN 0 ELSE @[j]]]
    IN  IF Renderer_call("reset", 1) # "ok"
        THEN Raised(s1, Renderer_call("reset", 1))
        ELSE LET o == next_observation([s1 EXCEPT !.current_estimator = label - 1])
             IN  IF o.outcome = "raised" THEN o
                 ELSE Returned([o.self EXCEPT !.obs = o.value],
                               <<Some(o.value[1]), o.self.path, o.self.probabilities>>)

\* Env.next_sample()
Env_next_sample(self) ==
    IF self.cur_sample + 2 > Len(self.x) THEN Raised(self, "IndexError")
    ELSE LET o == Env_reset([self EXCEPT !.cur_sample = @ + 1,
                                         !.cur_x = self.x[self.cur_sample + 2],
                                         !.observation_dict = <<>>], 0)
         IN  IF o.outcome = "raised" THEN o
             ELSE IF Renderer_call("next_sample", 0) # "ok"
             THEN Raised(o.self, Renderer_call("next_sample", 0))
             ELSE Returned(o.self, None)

\* one call of a script on an Env: <<"reset", label>> or <<"step", action>>
Env_call(self, call) ==
    IF call[1] = "reset" THEN Env_reset(self, call[2]) ELSE Env_step(self, call[2])

\* The script of tests/test_env_step.py: env = Env(cc, x, ...), then the
\* calls one after the other until one raises.  What it yields: the outcome
\* of the construction followed by the outcome of every call made, and the
\* Env as the last call left it (NoEnv when none was constructed).
RECURSIVE run_calls(_, _, _)
run_calls(self, calls, results) ==
    IF calls = <<>> THEN [env |-> self, results |-> results]
    ELSE Only({ IF o.outcome = "raised"
                THEN [env |-> o.self,
                      results |-> Append(results, [outcome |-> "raised", exc |-> o.exc])]
                ELSE run_calls(o.self, Tail(calls),
                               Append(results, [outcome |-> "returned", value |-> o.value])) :
                o \in {Env_call(self, Head(calls))} })

test_env_step(chain, x, loss, display, calls) ==
    Only({ IF e.state = "raised"
           THEN [env |-> NoEnv, results |-> <<[outcome |-> "raised", exc |-> e.exc]>>]
           ELSE run_calls(e, calls, <<[outcome |-> "returned"]>>) :
           e \in {Env_init(Wrapper(chain), x, loss, display)} })

-----------------------------------------------------------------------------
\* rl: QAgent, and RLInferer which drives it.  The agent holds a reference
\* to the Env, so every operation takes the agent and the Env and yields
\* both.  What np.random and the Q model decide is an input: the actions of
\* every path to experience.

\* -np.inf
NegInf == Num(Rat(0, 1), Rat(0, 1))

\* QAgent.__init__(environment)
QAgent_init(environment) ==
    [best_path |-> None, best_path_reward |-> NegInf, n_visited_nodes |-> 0,
     node_to_best_final_value |-> <<>>, rewards |-> <<>>]

\* the "for j in range(depth)" loop of __experience_environment_once from
\* step j on: the Env, the paths returned by the steps and the last reward
RECURSIVE experience_steps(_, _, _, _, _)
experience_steps(env, actions, j, nodes, final_value) ==
    IF j > Len(actions)
    THEN Returned(env, [nodes |-> nodes, final_value |-> final_value])
    ELSE Only({ IF o.outcome = "raised" THEN o @@ [steps |-> j - 1]
                ELSE experience_steps(o.self, actions, j + 1,
                                      Append(nodes, o.value[2]), o.value[4]) :
                o \in {Env_step(env, actions[j])} })

\* the "for node in nodes_current_path" loop: node_to_best_final_value
RECURSIVE best_final_values(_, _, _)
best_final_values(table, nodes, final_value) ==
    IF nodes = <<>> THEN table
    ELSE LET node == Head(nodes)
             v == IF node \notin DOMAIN table THEN final_value
                  ELSE IF NumGt(final_value, table[node]) THEN final_value
                  ELSE table[node]
         IN  best_final_values([n \in DOMAIN table \cup {node} |->
                                   IF n = node THEN v ELSE table[n]],
                               Tail(nodes), final_value)

\* QAgent.__experience_environment_once with the actions it chooses;
\* rewards is the history of the final values (not a field of the code)
experience_environment_once(agent, env, actions) ==
    Only({ IF r.outcome = "raised" THEN [agent |-> agent, env |-> r.self, exc |-> r.exc]
           ELSE Only({
                  IF e.outcome = "raised"
                  THEN [agent |-> [agent EXCEPT !.n_visited_nodes = @ + e.steps],
                        env |-> e.self, exc |-> e.exc]
                  ELSE [agent |->
                          [agent EXCEPT
                             !.n_visited_nodes = @ + Len(actions),
                             !.node_to_best_final_value =
                                 best_final_values(@, e.value.nodes, e.value.final_value),
                             !.rewards = Append(@, [path |-> e.value.nodes[Len(actions)],
                                                    reward |-> e.value.final_value]),
                             !.best_path_reward =
                                 IF NumGt(e.value.final_value, @)
                                 THEN e.value.final_value ELSE @,
                             !.best_path =
                                 IF NumGt(e.value.final_value, agent.best_path_reward)
                                 THEN e.value.nodes[Len(actions)] ELSE @],
                        env |-> e.self, exc |-> NoneStr] :
                  e \in {experience_steps(r.self, actions, 1, <<>>, None)} }) :
           r \in {Env_reset(env, 0)} })

\* QAgent.train(nb_sim, nb_paths, ...): paths holds the nb_sim * nb_paths
\* action sequences in the order they are experienced
RECURSIVE experience_paths(_, _, _)
experience_paths(agent, env, paths) ==
    IF paths = <<>> THEN [agent |-> agent, env |-> env, exc |-> NoneStr]
    ELSE Only({ IF o.exc # NoneStr THEN o
                ELSE experience_paths(o.agent, o.env, Tail(paths)) :
                o \in {experience_environment_once(agent, env, Head(paths))} })

train(agent, env, paths) ==
    experience_paths([agent EXCEPT !.n_visited_nodes = 0], env, paths)

\* (path + 1).astype(bool)
path_as_bool(path) == [j \in 1..Len(path) |-> path[j] + 1 # 0]

\* QAgent.predict(return_num_nodes, return_reward, mode='best_visited')
QAgent_predict(agent, return_num_nodes, return_reward) ==
    IF agent.best_path = None THEN Raised(agent, "TypeError")
    ELSE Returned(agent,
                  <<path_as_bool(agent.best_path)>>
                  \o (IF return_reward THEN <<agent.best_path_reward>> ELSE <<>>)
                  \o (IF return_num_nodes THEN <<agent.n_visited_nodes>> ELSE <<>>))

\* RLInferer.__init__(classifier_chain, loss, agent_type, nb_sim, nb_paths, epochs)
RLInferer_init(classifier_chain, loss, agent_type, nb_sim, nb_paths) ==
    LET base == BaseInferer_init(classifier_chain.cc.order, loss)
    IN  IF base.state = "raised" THEN base
        ELSE IF agent_type # "qlearning"
        THEN [state |-> "raised", exc |-> "AssertionError"]
        ELSE [state |-> "ok", class |-> "RLInferer", loss |-> base.loss,
              cc |-> classifier_chain, nb_sim |-> nb_sim, nb_paths |-> nb_paths,
              ran |-> FALSE]

\* the "for i in range(len(x))" loop of RLInferer._infer from row i on;
\* paths[i] holds what the agent of row i experiences.  agents keeps every
\* agent as its row left it, with the number of predict_proba calls the
\* Env made while it was the agent (n_predictions, not a field of the code)
AgentOf(t, env) ==
    t.agent @@ [n_predictions |-> t.env.n_predictions - env.n_predictions]

RECURSIVE infer_rows(_, _, _, _, _, _)
infer_rows(env, x, paths, i, y_pred, agents) ==
    IF i > Len(x) THEN [outcome |-> "returned", env |-> env, y_pred |-> y_pred,
                        agents |-> agents]
    ELSE Only({
           IF t.exc # NoneStr
           THEN [outcome |-> "raised", exc |-> t.exc, env |-> t.env,
                 agents |-> Append(agents, AgentOf(t, env))]
           ELSE Only({
                  IF pr.outcome = "raised"
                  THEN [outcome |-> "raised", exc |-> pr.exc, env |-> t.env,
                        agents |-> Append(agents, AgentOf(t, env))]
                  ELSE IF i < Len(x)
                  THEN Only({ IF ns.outcome = "raised"
                              THEN [outcome |-> "raised", exc |-> ns.exc, env |-> ns.self,
                                    agents |-> Append(agents, AgentOf(t, env))]
                              ELSE infer_rows(ns.self, x, paths, i + 1,
                                              Append(y_pred, pr.value),
                                              Append(agents, AgentOf(t, env))) :
                              ns \in {Env_next_sample(t.env)} })
                  ELSE infer_rows(t.env, x, paths, i + 1, Append(y_pred, pr.value),
                                  Append(agents, AgentOf(t, env))) :
                  pr \in {QAgent_predict(t.agent, TRUE, FALSE)} }) :
           t \in {train(QAgent_init(env), env, paths[i])} })

\* RLInferer._infer(x): env = Env(self.cc, x), then one agent per row
RLInferer_infer(self, x, paths) ==
    Only({ IF e.state = "raised"
           THEN [outcome |-> "raised", exc |-> e.exc, env |-> NoEnv, agents |-> <<>>]
           ELSE Only({ IF r.outcome = "raised" THEN r
                       ELSE [r EXCEPT !.y_pred =
                               <<[k \in 1..Len(x) |-> r.y_pred[k][1]],
                                 Mean([k \in 1..Len(x) |-> Rat(r.y_pred[k][2], 1)])>>] :
                       r \in {infer_rows(e, x, paths, 1, <<>>, <<>>)} }) :
           e \in {Env_init(self.cc, x, "exact_match", NoneStr)} })

-----------------------------------------------------------------------------
\* The state machine

Init ==
    /\ cc \in SearchChains \cup {ScenarioChain}
    /\ test_x \in Batches
    /\ inferer = NoInferer
    /\ ret = NoCall
    /\ queries = 0
    /\ order_ = <<>>
    /\ pred_ = <<>>
    /\ fixed_ = <<>>
    /\ env_ = NoEnv

\* inferer = EpsilonApproximationInferer(cc, loss, epsilon).  One inferer is
\* constructed per run: a later construction would overwrite inferer, ret
\* and queries and reach only states a first construction reaches.
Construct ==
    /\ inferer.state = "none"
    /\ ret.op = "none"
    /\ \E loss \in Losses, epsilon \in Epsilons :
        LET new == EpsilonApproximationInferer_init(<<cc, loss, epsilon>>)
        IN  /\ inferer' = new
            /\ ret' = [op |-> "construct", loss |-> loss, epsilon |-> epsilon,
                       outcome |-> IF new.state = "ok" THEN "returned" ELSE "raised"]
            /\ queries' = 0
            /\ UNCHANGED <<cc, test_x, order_, pred_, fixed_, env_>>

\* inferer.infer(test_x) on a constructed inferer (a second infer resets
\* the search fields and ends in the state the first one ended in)
Infer ==
    /\ inferer.state = "ok"
    /\ ~inferer.ran
    /\ \E r \in {infer(inferer, cc, test_x)} :
           /\ inferer' = r.self
           /\ ret' = [op |-> "infer", outcome |-> "returned", value |-> r.value]
           /\ queries' = r.n_calls
    /\ UNCHANGED <<cc, test_x, order_, pred_, fixed_, env_>>

\* the options a caller passes to predict
Kwargs ==
    {[loss |-> l, epsilon |-> e] : l \in Losses, e \in Epsilons} \cup {<<>>}

\* inference_method names tried ("viterbi" and "" name no strategy; the
\* beam-search and Monte-Carlo inferers are not part of this model)
Methods == {"greedy", "exhaustive_search", "epsilon_approximation", "viterbi", ""}

\* classifier_chain.predict(ds, inference_method, return_num_nodes, **kwargs)
Predict ==
    /\ ret.op = "none"
    /\ \E m \in Methods, k \in Kwargs, n \in BOOLEAN :
         \E r \in {predict(cc, test_x, m, n, k)} :
           /\ inferer' = r.inferer
           /\ queries' = r.queries
           /\ ret' = [op |-> "predict", inference_method |-> m, kwargs |-> k,
                      return_num_nodes |-> n] @@ [f \in DOMAIN r \ {"inferer", "queries"} |-> r[f]]
    /\ UNCHANGED <<cc, test_x, order_, pred_, fixed_, env_>>

\* pred = self.__fix_order(pred) on its own
FixOrder ==
    /\ fixed_ = <<>>
    /\ fixed_' = fix_order(order_, pred_)
    /\ UNCHANGED <<cc, test_x, inferer, ret, queries, order_, pred_, env_>>

Next == Construct \/ Infer

\* searches: an EpsilonApproximationInferer constructed and run on a batch
Spec == Init /\ [][Next]_vars

\* the same searches, for what is said of the leaves and rows of one search
SpecLeaves == Init /\ [][Next]_vars

InitPredict ==
    /\ cc \in PredictChains
    /\ test_x \in Batches
    /\ inferer = NoInferer
    /\ ret = NoCall
    /\ queries = 0
    /\ order_ = <<>>
    /\ pred_ = <<>>
    /\ fixed_ = <<>>
    /\ env_ = NoEnv

NextPredict == Predict \/ Construct \/ Infer

\* the chain's predict entry point, beside direct use of the inferer
SpecPredict == InitPredict /\ [][NextPredict]_vars

\* most training loops and most paths per loop of an RLInferer
MaxSim == 2

MaxPaths == 2

\* the chains an Env is built on: every one-label chain and the scenario chain
EnvChains == {c \in Chains(1) \cup {ScenarioChain} : c.order = Identity(Depth(c))}

\* loss and display arguments of Env (None is the default display)
EnvLosses == {"exact_match", "hamming"}

Displays == {NoneStr, "none", "print", "draw"}

\* the scripts run on an Env of n labels: nothing, one step before any
\* reset, or reset() and up to n steps with actions in {-1, 1}, then
\* possibly one more call: a step with any action or a reset to a label
Episodes(n) == UNION {[1..k -> {-1, 1}] : k \in 0..n}

LastCalls(n) ==
    {<<>>} \cup {<<<<"step", a>>>> : a \in {-1, 0, 1, 2}}
           \cup {<<<<"reset", l>>>> : l \in 0..n}

Scripts(n) ==
    {<<>>} \cup {<<<<"step", a>>>> : a \in {-1, 0, 1}}
           \cup {<<<<"reset", 0>>>> \o [j \in 1..Len(e) |-> <<"step", e[j]>>] \o t :
                    e \in Episodes(n), t \in LastCalls(n)}

\* tests/test_env_step.py: env = Env(cc, x, loss, display), then the calls
TestEnvStep ==
    /\ ret.op = "none"
    /\ inferer.state = "none"
    /\ \E loss \in EnvLosses, display \in Displays, calls \in Scripts(Depth(cc)) :
         \E r \in {test_env_step(cc, test_x, loss, display, calls)} :
           /\ env_' = r.env
           /\ ret' = [op |-> "test_env_step", loss |-> loss, display |-> display,
                      calls |-> calls, results |-> r.results]
           /\ queries' = IF r.env = NoEnv THEN 0 ELSE r.env.n_predictions
    /\ UNCHANGED <<cc, test_x, inferer, order_, pred_, fixed_>>

\* inferer = RLInferer(classifier_chain, loss, agent_type, nb_sim, nb_paths, epochs)
RLConstruct ==
    /\ inferer.state = "none"
    /\ ret.op = "none"
    /\ \E loss \in Losses, agent_type \in {"qlearning", "policy"},
          nb_sim \in 1..MaxSim, nb_paths \in 1..MaxPaths :
        LET new == RLInferer_init(Wrapper(cc), loss, agent_type, nb_sim, nb_paths)
        IN  /\ inferer' = new
            /\ ret' = [op |-> "construct", loss |-> loss, agent_type |-> agent_type,
                       outcome |-> IF new.state = "ok" THEN "returned" ELSE "raised"]
            /\ queries' = 0
            /\ UNCHANGED <<cc, test_x, order_, pred_, fixed_, env_>>

\* the paths the agents of an RLInferer experience, one list per row (none
\* is asked for when no Env is constructed)
AgentPaths(self, x) ==
    IF Env_init(self.cc, x, "exact_match", NoneStr).state = "raised" THEN {<<>>}
    ELSE [1..Len(x) -> [1..(self.nb_sim * self.nb_paths) ->
                           [1..self.cc.n_labels -> {-1, 1}]]]

\* inferer.infer(test_x) on an RLInferer: BaseInferer.infer calls _infer,
\* then replays the reward on self._cc, which RLInferer.__init__ set to
\* the order_ array (it has no estimators_)
RLInfer ==
    /\ inferer.state = "ok"
    /\ inferer.class = "RLInferer"
    /\ ~inferer.ran
    /\ \E paths \in AgentPaths(inferer, test_x) :
         \E r \in {RLInferer_infer(inferer, test_x, paths)} :
           /\ inferer' = [inferer EXCEPT !.ran = TRUE]
           /\ env_' = r.env
           /\ ret' = [op |-> "rl_infer", outcome |-> "raised",
                      exc |-> IF r.outcome = "raised" THEN r.exc ELSE "AttributeError",
                      agents |-> r.agents,
                      pred |-> IF r.outcome = "raised" THEN None ELSE r.y_pred]
           /\ queries' = IF r.env = NoEnv THEN 0 ELSE r.env.n_predictions
    /\ UNCHANGED <<cc, test_x, order_, pred_, fixed_>>

InitEnv ==
    /\ cc \in EnvChains
    /\ test_x \in Batches
    /\ inferer = NoInferer
    /\ ret = NoCall
    /\ queries = 0
    /\ order_ = <<>>
    /\ pred_ = <<>>
    /\ fixed_ = <<>>
    /\ env_ = NoEnv

NextEnv == TestEnvStep \/ RLConstruct \/ RLInfer

\* the gym environment and the agent that learns on it
SpecEnv == InitEnv /\ [][NextEnv]_vars

InitOrder ==
    /\ cc = ScenarioChain
    /\ test_x = <<0>>
    /\ inferer = NoInferer
    /\ ret = NoCall
    /\ queries = 0
    /\ \E d \in 1..MaxLabels :
         /\ order_ \in Perms(d)
         /\ pred_ \in UNION {[1..n -> Paths(d)] : n \in 1..MaxRows}
    /\ fixed_ = <<>>
    /\ env_ = NoEnv

NextOrder == FixOrder

\* the reorder step as a function of any order and any prediction matrix
SpecOrder == InitOrder /\ [][NextOrder]_vars

-----------------------------------------------------------------------------
\* Properties

IsEps == inferer.state = "ok" /\ inferer.class = "EpsilonApproximationInferer"

\* an EpsilonApproximationInferer has just returned from infer(test_x)
Searched == ret.op = "infer" /\ IsEps

ValidOptions(k) ==
    /\ k # <<>>
    /\ ValidLoss(k.loss)
    /\ valid_epsilon(k.epsilon)

\* C1: with epsilon = 0 every row's prediction is a highest-scoring path of
\* the full enumeration of all 2^depth label paths (what exhaustive search
\* keeps), ties between the two labels of a node included.
C1_EpsilonZeroIsExhaustive ==
    (Searched /\ inferer.epsilon = 0) =>
        \A r \in 1..Len(test_x) :
            inferer.best_pred[r] \in best_paths(cc, inferer.loss, test_x[r])

\* C2: with epsilon = 0.5, under either loss, every row's prediction is the
\* greedy path (the arg-max label at every node from the root).
C2_EpsilonHalfIsGreedy ==
    (Searched /\ inferer.epsilon = 5) =>
        \A r \in 1..Len(test_x) :
            inferer.best_pred[r] = greedy_path(cc, test_x[r], <<>>)

\* C3: the reward the harness replays for the returned prediction equals
\* the batch mean of the best scores the search recorded (__best_p), under
\* either loss.
C3_RewardIsRecordedScore ==
    Searched => ret.value[3] = Mean(inferer.best_p)

\* C4 as stated: on the scenario chain under exact_match, epsilon = 0.5
\* returns the path [1,1,1] in chain order.
C4_ScenarioReturns111 ==
    (Searched /\ cc = ScenarioChain /\ inferer.loss = "exact_match"
              /\ inferer.epsilon = 5) =>
        \A r \in 1..Len(test_x) : inferer.best_pred[r] = <<TRUE, TRUE, TRUE>>

\* C4 amended: on the scenario chain under exact_match, epsilon = 0.5
\* returns the greedy path [0,0,0] in chain order, after one estimator
\* query per label.
C4_ScenarioReturns000 ==
    (Searched /\ cc = ScenarioChain /\ inferer.loss = "exact_match"
              /\ inferer.epsilon = 5) =>
        /\ \A r \in 1..Len(test_x) : inferer.best_pred[r] = <<FALSE, FALSE, FALSE>>
        /\ inferer.n_nodes = Rat(3, 1)

C4_Witness ==
    /\ Searched /\ cc = ScenarioChain /\ inferer.loss = "exact_match"
    /\ inferer.epsilon = 5 /\ Len(test_x) = 1
    /\ ret.value[1] = <<<<FALSE, FALSE, FALSE>>>>

\* C5: infer returns a pair (prediction, mean visited nodes), and predict
\* with a non-greedy strategy and valid options unpacks it and returns
\* without error.
C5_InferReturnsPair ==
    /\ ret.op = "infer" => Len(ret.value) = 2
    /\ (/\ ret.op = "predict"
        /\ strategy(ret.inference_method) \notin {"greedy", "raise"}
        /\ ValidOptions(ret.kwargs)) =>
            /\ ret.outcome = "returned"
            /\ ret.return_num_nodes => Len(ret.value) = 2

\* C6: predict with inference_method = 'epsilon_approximation' and options
\* loss = l, epsilon = e in range runs an EpsilonApproximationInferer whose
\* loss is l and whose epsilon is e.
C6_PredictRunsEpsilonInferer ==
    (/\ ret.op = "predict"
     /\ ret.inference_method = "epsilon_approximation"
     /\ ValidOptions(ret.kwargs)) =>
        /\ IsEps
        /\ inferer.loss = ret.kwargs.loss
        /\ inferer.epsilon = ret.kwargs.epsilon
        /\ inferer.ran

\* C7: constructing an EpsilonApproximationInferer with a loss outside
\* {exact_match, hamming} or an epsilon outside [0, 0.5] fails at
\* construction with no estimator queried, and a search only ever runs with
\* a valid loss and epsilon.
C7_InvalidParametersFailAtConstruction ==
    /\ (/\ ret.op = "construct"
        /\ (~ValidLoss(ret.loss) \/ ret.epsilon < 0 \/ ret.epsilon > 5)) =>
            /\ ret.outcome = "raised"
            /\ inferer.state = "raised"
            /\ queries = 0
    /\ (IsEps /\ inferer.ran) =>
            /\ inferer.loss \in {"exact_match", "hamming"}
            /\ 0 <= inferer.epsilon /\ inferer.epsilon <= 5

C7_Witness ==
    /\ ret.op = "construct" /\ ret.loss = "hamming" /\ ret.epsilon = 6
    /\ ret.outcome = "raised" /\ queries = 0

\* C8: predict with an inference_method that names no implemented strategy
\* raises before any estimator is queried and returns no prediction.
C8_UnknownStrategyFailsFast ==
    (/\ ret.op = "predict"
     /\ ret.inference_method \notin
            {"greedy", "exhaustive_search", "epsilon_approximation",
             "beam_search", "monte_carlo", "efficient_monte_carlo"}) =>
        /\ ret.outcome = "raised"
        /\ "value" \notin DOMAIN ret
        /\ queries = 0
        /\ inferer = NoInferer

C8_Witness ==
    /\ ret.op = "predict" /\ ret.inference_method = "viterbi"
    /\ ret.kwargs # <<>> /\ ret.outcome = "raised" /\ ret.exc = "Exception"

\* C9: the reorder step puts chain-position column j at label index
\* order[j] for every j, so re-indexing its output by order gives back the
\* chain-order prediction.
C9_ReorderPlacesColumns ==
    fixed_ # <<>> =>
        /\ \A r \in 1..Len(pred_) : \A j \in 1..Len(order_) :
               fixed_[r][order_[j] + 1] = pred_[r][j]
        /\ [r \in 1..Len(pred_) |->
               [j \in 1..Len(order_) |-> fixed_[r][order_[j] + 1]]] = pred_

C9_Witness ==
    /\ fixed_ # <<>> /\ order_ = <<1, 2, 0>>
    /\ Len(pred_) = 2 /\ fixed_ # pred_

\* C10: for a fixed chain, batch and loss the visited-node count does not
\* decrease as epsilon decreases: nodes(e1) >= nodes(e2) for e1 <= e2.
C10_NodesMonotoneInEpsilon ==
    Searched =>
        \A e1 \in 0..inferer.epsilon :
            RatGeq(Rat(search(cc, inferer.loss, e1, test_x).n_nodes, Len(test_x)),
                   inferer.n_nodes)

C10_Witness ==
    /\ Searched /\ inferer.epsilon = 5 /\ Len(test_x) = 2
    /\ RatGt(Rat(search(cc, inferer.loss, 3, test_x).n_nodes, Len(test_x)),
             inferer.n_nodes)
    /\ RatGt(Rat(search(cc, inferer.loss, 0, test_x).n_nodes, Len(test_x)),
             Rat(search(cc, inferer.loss, 3, test_x).n_nodes, Len(test_x)))

\* C11: rows of a batch are independent: the prediction and the recorded
\* best score of every row searched inside the batch equal those of the same
\* row searched alone as a one-row batch.
C11_RowsIndependent ==
    Searched =>
        \A r \in 1..Len(test_x) :
            \E alone \in {search(cc, inferer.loss, inferer.epsilon, <<test_x[r]>>)} :
                /\ inferer.best_pred[r] = alone.best_pred[1]
                /\ inferer.best_p[r] = alone.best_p[1]

\* two rows that part at a node (a leaf reached by one of them only) and
\* end with different predictions
C11_Witness ==
    /\ Searched /\ Len(test_x) = 2
    /\ inferer.best_pred[1] # inferer.best_pred[2]
    /\ \E k \in 1..Len(inferer.leaves) : inferer.leaves[k].mask = <<FALSE, TRUE>>
    /\ \E k \in 1..Len(inferer.leaves) : inferer.leaves[k].mask = <<TRUE, FALSE>>

\* the score a leaf was called with for row r (cur_p holds the active rows only)
LeafScore(e, r) == e.cur_p[Rank(e.mask, r)]

\* C18: for every epsilon in [0, 0.5], either loss and every batch, every
\* row reaches the leaf of its higher-probability branches (the first leaf,
\* with every row active), so on return each row's best score is greater
\* than 0 and its best prediction is a complete path a leaf was reached
\* with for that row, with that score.
C18_EveryRowReachesALeaf ==
    Searched =>
        /\ Len(inferer.leaves) >= 1
        /\ \A r \in 1..Len(test_x) :
              /\ inferer.leaves[1].mask[r]
              /\ inferer.leaves[1].cur_pred[r] = greedy_path(cc, test_x[r], <<>>)
              /\ RatGt(inferer.best_p[r], Rat(0, 1))
              /\ \E k \in 1..Len(inferer.leaves) :
                    /\ inferer.leaves[k].mask[r]
                    /\ inferer.leaves[k].cur_pred[r] = inferer.best_pred[r]
                    /\ LeafScore(inferer.leaves[k], r) = inferer.best_p[r]

\* a pruned search of two rows in which a row's best is not its first leaf
C18_Witness ==
    /\ Searched /\ Len(test_x) = 2 /\ inferer.epsilon = 3
    /\ \E r \in 1..2 : inferer.best_pred[r] # inferer.leaves[1].cur_pred[r]
    /\ \E k \in 1..Len(inferer.leaves) : inferer.leaves[k].mask # <<TRUE, TRUE>>

\* C19: at every leaf the rows whose best path and best score are replaced
\* are exactly the active rows whose new score is strictly greater than
\* their best; they take their current path and its score, and every other
\* row keeps its best path and best score.  The leaves follow one another:
\* each starts from the best arrays the previous one left.
C19_LeafUpdatesBetterActiveRows ==
    Searched =>
        /\ \A k \in 1..Len(inferer.leaves) : \A r \in 1..Len(test_x) :
              LET e == inferer.leaves[k]
              IN  IF e.mask[r] /\ RatGt(LeafScore(e, r), e.best_p[r])
                  THEN e.new_pred[r] = e.cur_pred[r] /\ e.new_p[r] = LeafScore(e, r)
                  ELSE e.new_pred[r] = e.best_pred[r] /\ e.new_p[r] = e.best_p[r]
        /\ \A k \in 1..(Len(inferer.leaves) - 1) :
              /\ inferer.leaves[k + 1].best_pred = inferer.leaves[k].new_pred
              /\ inferer.leaves[k + 1].best_p = inferer.leaves[k].new_p
        /\ inferer.best_pred = inferer.leaves[Len(inferer.leaves)].new_pred
        /\ inferer.best_p = inferer.leaves[Len(inferer.leaves)].new_p

\* a leaf with both rows active that replaces the second row's best only,
\* and a leaf reached by one of the rows alone
C19_Witness ==
    /\ Searched /\ Len(test_x) = 2
    /\ \E k \in 1..Len(inferer.leaves) :
          LET e == inferer.leaves[k]
          IN  /\ e.mask = <<TRUE, TRUE>>
              /\ e.new_p[1] = e.best_p[1] /\ ~RatGt(e.cur_p[1], e.best_p[1])
              /\ e.new_pred[2] # e.best_pred[2] /\ e.new_p[2] # e.cur_p[1]
    /\ \E k \in 1..Len(inferer.leaves) : inferer.leaves[k].mask # <<TRUE, TRUE>>

\* a script has run on an Env and every call of it returned
EnvRan == ret.op = "test_env_step"

AllReturned ==
    /\ Len(ret.results) = Len(ret.calls) + 1
    /\ \A k \in 1..Len(ret.results) : ret.results[k].outcome = "returned"

LastCall == ret.calls[Len(ret.calls)]

LastResult == ret.results[Len(ret.results)]

\* the script is reset() followed by k steps with actions in {-1, 1}
IsEpisode(calls, k) ==
    /\ Len(calls) = k + 1
    /\ calls[1] = <<"reset", 0>>
    /\ \A j \in 2..(k + 1) : calls[j][1] = "step" /\ calls[j][2] \in {-1, 1}

\* the Env the script of the first n calls of ret.calls ends with
EnvAfter(n) ==
    test_env_step(cc, test_x, ret.loss, ret.display, [j \in 1..n |-> ret.calls[j]]).env

\* what reset(label) is said to restore
EnvState(e) ==
    <<e.path, e.probabilities, e.current_estimator, e.current_probability, e.obs>>

\* C12: Env(classifier_chain, x) with the default display, loss and seed is
\* constructed, and the reset() that follows returns the root observation
\* (the probability of label 0 at estimator 0), an all-zero path and
\* all-zero probabilities.
C12_DefaultEnvConstructsAndResets ==
    (/\ EnvRan /\ ret.display = NoneStr /\ ret.loss = "exact_match"
     /\ ret.calls = <<<<"reset", 0>>>>) =>
        /\ AllReturned
        /\ LastResult.value =
              <<Some(predict_proba(cc.estimators[1], <<test_x[1]>>)[1]),
                Zeros(Depth(cc)), Zeros(Depth(cc))>>

\* C13: under exact_match the reward of the terminal step of an episode
\* started by reset() is the joint probability of the chosen path, the
\* product of the probabilities of the branches chosen at every label.
C13_TerminalRewardIsJointProbability ==
    (EnvRan /\ ret.loss = "exact_match" /\ IsEpisode(ret.calls, Depth(cc))) =>
        /\ AllReturned
        /\ LastResult.value[5]
        /\ LastResult.value[4] =
              Num(path_score(cc, "exact_match", test_x[1],
                             path_as_bool(LastResult.value[2])),
                  Rat(1, 1))

\* C14: step with an action other than 1 and -1 (0 included) raises
\* RuntimeError and leaves the Env as it was before the call.
C14_InvalidActionRaisesRuntimeError ==
    (/\ EnvRan /\ ret.calls # <<>>
     /\ LastCall[1] = "step" /\ LastCall[2] \notin {-1, 1}) =>
        /\ Len(ret.results) = Len(ret.calls) + 1
        /\ LastResult.outcome = "raised"
        /\ LastResult.exc = "RuntimeError"
        /\ env_ = EnvAfter(Len(ret.calls) - 1)

\* C15: after reset() and k valid steps, reset(label) with label <= k and
\* label < n_labels leaves path, probabilities, current_estimator,
\* current_probability and the observation as reset() and the first
\* `label` of those steps leave them.
C15_ResetUndoesLaterDecisions ==
    (/\ EnvRan /\ Len(ret.calls) >= 2
     /\ IsEpisode([j \in 1..(Len(ret.calls) - 1) |-> ret.calls[j]], Len(ret.calls) - 2)
     /\ LastCall[1] = "reset"
     /\ LastCall[2] <= Len(ret.calls) - 2 /\ LastCall[2] < Depth(cc)) =>
        /\ AllReturned
        /\ EnvState(env_) = EnvState(EnvAfter(LastCall[2] + 1))

\* an RLInferer has run its agents on the batch
RLRan == ret.op = "rl_infer"

\* C16: the node count predict(return_num_nodes=True) returns for an agent
\* is the number of predictions the chain's estimators ran for it since its
\* train started.
C16_NodeCountIsPredictionsRun ==
    RLRan =>
        /\ Len(ret.agents) = Len(test_x)
        /\ \A k \in 1..Len(ret.agents) :
              ret.agents[k].n_visited_nodes = ret.agents[k].n_predictions

\* C17: after its episodes an agent's best_path_reward is the greatest
\* terminal reward of the episodes experienced and best_path the complete
\* path of an episode that got it; predict returns that path as booleans.
C17_BestPathIsBestEpisode ==
    RLRan =>
        /\ Len(ret.agents) = Len(test_x)
        /\ ret.pred # None
        /\ \A k \in 1..Len(ret.agents) :
              LET a == ret.agents[k]
              IN  /\ \A j \in 1..Len(a.rewards) :
                        ~NumGt(a.rewards[j].reward, a.best_path_reward)
                  /\ \E j \in 1..Len(a.rewards) :
                        /\ a.rewards[j].reward = a.best_path_reward
                        /\ a.rewards[j].path = a.best_path
                  /\ \A j \in 1..Depth(cc) : a.best_path[j] \in {-1, 1}
                  /\ ret.pred[1][k] = [j \in 1..Depth(cc) |-> a.best_path[j] = 1]

\* C20: an episode started by reset() is n_labels steps with actions in
\* {-1, 1}: every step but the last returns done = False, reward 0 and the
\* next observation, the last returns done = True, the accumulated reward
\* (not 0) and no observation.
C20_EpisodeIsNLabelsSteps ==
    (EnvRan /\ IsEpisode(ret.calls, Depth(cc))) =>
        /\ AllReturned
        /\ \A k \in 3..Len(ret.results) :
              LET v == ret.results[k].value
              IN  IF k < Len(ret.results)
                  THEN ~v[5] /\ v[4] = Num(Rat(0, 1), Rat(1, 1)) /\ v[1] # None
                  ELSE /\ v[5] /\ v[1] = None
                       /\ v[4] = EnvAfter(Len(ret.calls)).current_probability
                       /\ v[4] # Num(Rat(0, 1), Rat(1, 1))

\* the complete label paths the search of inferer evaluated at a leaf for row r
LeafPaths(r) ==
    { inferer.leaves[k].cur_pred[r] :
        k \in { j \in 1..Len(inferer.leaves) : inferer.leaves[j].mask[r] } }

\* C21: the two branches expanded at a node for a row carry the two
\* distinct label values, so during one search no complete label path is
\* evaluated at a leaf twice for the same row, and with epsilon = 0 all
\* 2^depth distinct leaf paths are evaluated for every row.
C21_NoLeafPathTwice ==
    Searched =>
        \A r \in 1..Len(test_x) :
            /\ \A k1, k2 \in 1..Len(inferer.leaves) :
                  (/\ k1 < k2
                   /\ inferer.leaves[k1].mask[r] /\ inferer.leaves[k2].mask[r]) =>
                      inferer.leaves[k1].cur_pred[r] # inferer.leaves[k2].cur_pred[r]
            /\ inferer.epsilon = 0 => Cardinality(LeafPaths(r)) = 2 ^ Depth(cc)

====
